---- MODULE Spec2Model ----
(***************************************************************************)
(* Device (src/_device.py): the attributes of one Cloud Print device and   *)
(* the Privet registration calls made on it.                               *)
(*                                                                         *)
(* Text is a sequence of atoms (words); Python's `x in text` is the        *)
(* contiguous-subsequence test.  A value is a record [t, s]: t is the      *)
(* Python type ("str", "num", "bool", "none"), "unset" for an attribute    *)
(* that was never assigned and "raise" for a raised exception; s is the    *)
(* text of the value.                                                      *)
(***************************************************************************)
EXTENDS Integers, Sequences, FiniteSets, TLC

\* Largest number of getClaimToken requests one call is followed for.
MaxPolls == 6

\* ------------------------------ values ---------------------------------
VStr(s) == [t |-> "str", s |-> s]
VNum(s) == [t |-> "num", s |-> s]
VTrue == [t |-> "bool", s |-> <<"true">>]
VFalse == [t |-> "bool", s |-> <<"false">>]
None == [t |-> "none", s |-> <<>>]
Unset == [t |-> "unset", s |-> <<>>]
AttributeError == [t |-> "raise", s |-> <<"AttributeError">>]
PyBool(b) == IF b THEN VTrue ELSE VFalse

\* Python truth value of a value (`if x:` / `if not x:`).
Truthy(v) ==
  CASE v.t = "str" -> v.s # <<>>
    [] v.t = "num" -> v.s # <<"0">>
    [] v.t = "bool" -> v.s = <<"true">>
    [] v.t = "dict" -> v.s # <<>>
    [] OTHER -> FALSE

\* str(x) of a decoded JSON value.
PyStr(v) ==
  CASE v.t = "str" -> v
    [] v.t = "num" -> VStr(v.s)
    [] v.t = "bool" -> VStr(IF v.s = <<"true">> THEN <<"True">> ELSE <<"False">>)
    [] OTHER -> VStr(<<"None">>)

\* `needle in hay` on text.
Contains(hay, needle) ==
  \E i \in 0..(Len(hay) - Len(needle)) :
    SubSeq(hay, i + 1, i + Len(needle)) = needle

\* ------------------------------ bodies ---------------------------------
\* A body is JSON (an object: a sequence of [k, v] members) or plain text.
Json(members) == [json |-> TRUE, members |-> members, text |-> <<>>]
Text(text) == [json |-> FALSE, members |-> <<>>, text |-> text]
M(k, v) == [k |-> k, v |-> v]

\* The text of a JSON value as it stands in the body.
JsonText(v) == IF v.t = "none" THEN <<"null">> ELSE v.s

RECURSIVE MembersText(_)
MembersText(ms) ==
  IF ms = <<>> THEN <<>>
  ELSE Head(ms).k \o JsonText(Head(ms).v) \o MembersText(Tail(ms))

\* response['data']: the body as text.
Raw(body) == IF body.json THEN MembersText(body.members) ELSE body.text

HasKey(body, k) == body.json /\ \E i \in 1..Len(body.members) : body.members[i].k = k

\* JsonParser.GetValue(data, key): the key's value, None when absent.
GetValue(body, k) ==
  IF HasKey(body, k)
  THEN LET i == CHOOSE j \in 1..Len(body.members) :
                  /\ body.members[j].k = k
                  /\ \A l \in (j + 1)..Len(body.members) : body.members[l].k # k
       IN body.members[i].v
  ELSE None

\* JsonParser.Validate(data): the body parses and is not an error.
Validate(body) ==
  /\ body.json
  /\ ~HasKey(body, <<"error">>)
  /\ (HasKey(body, <<"success">>) => Truthy(GetValue(body, <<"success">>)))

\* Transport.LogData(response): the transport-level outcome of the request.
LogData(response) == response.code = <<"200">>

\* JsonParser.Read(data): the decoded object, with its 'json' flag.
Read(body) == IF body.json THEN body ELSE Text(<<>>)

\* ------------------------------ requests -------------------------------
\* One HTTPReq: the endpoint, what the URL is built from, the headers sent.
Req(ep, arg, hdr) == [ep |-> ep, arg |-> arg, hdr |-> hdr]
\* Privet.headers_empty, sent on the unauthenticated info request.
HeadersEmpty == VStr(<<>>)
\* The result of a method: the device after it, what it returned (or raised)
\* and the requests it issued.
Outcome(self, ret, reqs) == [self |-> self, ret |-> ret, reqs |-> reqs]

\* ------------------------------ methods --------------------------------
GetPrivetInfoKeepFirst(self, response) ==
  LET info == Read(response.data)
      stored == IF info.json THEN info.members ELSE <<>>
      hdrs == IF info.json /\ HasKey(info, <<"x-privet-", "token">>) /\ self.headers = None
              THEN PyStr(GetValue(info, <<"x-privet-", "token">>))
              ELSE self.headers
  IN Outcome([self EXCEPT !.privet_info = stored, !.headers = hdrs],
             None, <<Req("info", None, HeadersEmpty)>>)
GetPrivetInfoResetting(self, response) ==
  LET info == Read(response.data)
      stored == IF info.json THEN info.members ELSE <<>>
      hdrs == IF info.json /\ HasKey(info, <<"x-privet-", "token">>)
              THEN PyStr(GetValue(info, <<"x-privet-", "token">>))
              ELSE None
  IN Outcome([self EXCEPT !.privet_info = stored, !.headers = hdrs],
             None, <<Req("info", None, HeadersEmpty)>>)
\* Device.GetPrivetInfo
GetPrivetInfo(self, response) ==
  LET info == Read(response.data)
      stored == IF info.json THEN info.members ELSE <<>>
      hdrs == IF info.json /\ HasKey(info, <<"x-privet-", "token">>)
              THEN PyStr(GetValue(info, <<"x-privet-", "token">>))
              ELSE self.headers
  IN Outcome([self EXCEPT !.privet_info = stored, !.headers = hdrs],
             None, <<Req("info", None, HeadersEmpty)>>)

CancelRegistrationClearing(self, response) ==
  Outcome([self EXCEPT !.claim_token = None, !.automated_claim_url = None,
                       !.claim_url = None],
          VNum(response.code), <<Req("cancel", None, self.headers)>>)
\* Device.CancelRegistration
CancelRegistration(self, response) ==
  Outcome(self, VNum(response.code), <<Req("cancel", None, self.headers)>>)

\* Device.StartPrivetRegister
StartPrivetRegister(self, response) ==
  Outcome(self, PyBool(LogData(response)), <<Req("start", None, self.headers)>>)

\* max_cycles in Device.GetPrivetClaimToken
max_cycles == 5

LoopTestOffByOne(counter) == counter <= max_cycles
\* The test of the while loop of Device.GetPrivetClaimToken.
LoopTest(counter) == counter < max_cycles

StoreClaimSwapped(self, body) ==
  [self EXCEPT !.claim_token = GetValue(body, <<"token">>),
               !.automated_claim_url = GetValue(body, <<"claim_url">>),
               !.claim_url = GetValue(body, <<"automated_", "claim_url">>)]
\* The three fields Device.GetPrivetClaimToken takes from a token response.
StoreClaim(self, body) ==
  [self EXCEPT !.claim_token = GetValue(body, <<"token">>),
               !.automated_claim_url = GetValue(body, <<"automated_", "claim_url">>),
               !.claim_url = GetValue(body, <<"claim_url">>)]

\* One pass of the while loop of Device.GetPrivetClaimToken, and the loop
\* test that follows it: done tells whether the method has returned.
ClaimTokenAttempt(self, counter, response) ==
  LET data == Raw(response.data)
      req == <<Req("getClaimToken", None, self.headers)>>
  IN IF Contains(data, <<"token">>)
     THEN [self |-> StoreClaim(self, response.data), counter |-> counter,
           done |-> TRUE, ret |-> VTrue, reqs |-> req]
     ELSE IF Contains(data, <<"error">>)
     THEN IF Contains(data, <<"pending_user_action">>)
          THEN [self |-> self, counter |-> counter + 1,
                done |-> ~LoopTest(counter + 1), ret |-> VFalse, reqs |-> req]
          ELSE [self |-> self, counter |-> counter, done |-> TRUE,
                ret |-> VFalse, reqs |-> req]
     ELSE [self |-> self, counter |-> counter,
           done |-> ~LoopTest(counter), ret |-> VFalse, reqs |-> req]

HasClaimTokenOnly(self) == Truthy(self.claim_token)
\* The two preconditions of Device.SendClaimToken.
HasClaim(self) == Truthy(self.claim_token) /\ Truthy(self.automated_claim_url)

\* Device.SendClaimToken
SendClaimToken(self, response) ==
  IF self.claim_token = Unset THEN Outcome(self, AttributeError, <<>>)
  ELSE IF ~Truthy(self.claim_token) THEN Outcome(self, VFalse, <<>>)
  ELSE IF self.automated_claim_url = Unset THEN Outcome(self, AttributeError, <<>>)
  ELSE IF ~HasClaim(self) THEN Outcome(self, VFalse, <<>>)
  ELSE LET info == Read(response.data)
           req == <<Req("claim", self.automated_claim_url, None)>>
       IN IF info.json
          THEN IF ~HasKey(info, <<"success">>)
               THEN Outcome(self, [t |-> "raise", s |-> <<"KeyError">>], req)
               ELSE Outcome(self, PyBool(Truthy(GetValue(info, <<"success">>))), req)
          ELSE Outcome(self, VFalse, req)

DeviceIdKeysExact(info) ==
  {i \in 1..Len(info.members) : info.members[i].k = <<"device_id">>}
\* The keys of a decoded object that contain 'device_id'.
DeviceIdKeys(info) ==
  {i \in 1..Len(info.members) : Contains(info.members[i].k, <<"device_id">>)}

\* Device.FinishPrivetRegister
FinishPrivetRegister(self, response) ==
  LET info == Read(response.data)
      ks == DeviceIdKeys(info)
      newid == IF info.json /\ ks # {}
               THEN info.members[CHOOSE i \in ks : \A j \in ks : j <= i].v
               ELSE self.id
  IN Outcome([self EXCEPT !.id = newid], PyBool(LogData(response)),
             <<Req("complete", None, self.headers)>>)

UnRegisterKeepId(self, response) ==
  IF self.id = Unset THEN Outcome(self, AttributeError, <<>>)
  ELSE IF ~Truthy(self.id) THEN Outcome(self, VFalse, <<>>)
  ELSE Outcome(self, PyBool(Validate(response.data)), <<Req("delete", self.id, None)>>)
UnRegisterUnguarded(self, response) ==
  IF self.id = Unset THEN Outcome(self, AttributeError, <<>>)
  ELSE LET req == <<Req("delete", self.id, None)>>
       IN IF Validate(response.data)
          THEN Outcome([self EXCEPT !.id = None], VTrue, req)
          ELSE Outcome(self, VFalse, req)
\* Device.UnRegister
UnRegister(self, response) ==
  IF self.id = Unset THEN Outcome(self, AttributeError, <<>>)
  ELSE IF ~Truthy(self.id) THEN Outcome(self, VFalse, <<>>)
  ELSE LET req == <<Req("delete", self.id, None)>>
       IN IF Validate(response.data)
          THEN Outcome([self EXCEPT !.id = None], VTrue, req)
          ELSE Outcome(self, VFalse, req)

\* ------------------------------ responses ------------------------------
Response(code, data) == [code |-> code, data |-> data]
Ok(data) == Response(<<"200">>, data)
Failed(data) == Response(<<"400">>, data)

EmptyBody == Text(<<>>)
HtmlBody == Text(<<"<html>">>)

\* /privet/info
TokenInfoBodies ==
  { Json(<<M(<<"name">>, VStr(<<"printer">>)),
           M(<<"x-privet-", "token">>, VStr(<<"tokA">>))>>),
    Json(<<M(<<"x-privet-", "token">>, VNum(<<"5">>))>>) }
InfoResponses ==
  {Ok(b) : b \in TokenInfoBodies}
    \cup { Ok(Json(<<M(<<"name">>, VStr(<<"printer">>))>>)), Failed(HtmlBody) }

\* /privet/register?action=start and action=cancel
PlainResponses == { Ok(Json(<<>>)), Failed(EmptyBody) }

\* /privet/register?action=getClaimToken
TokenBody ==
  Json(<<M(<<"token">>, VStr(<<"claimA">>)),
         M(<<"automated_", "claim_url">>, VStr(<<"urlA">>)),
         M(<<"claim_url">>, VStr(<<"humanA">>))>>)
TokenOnlyBody == Json(<<M(<<"token">>, VStr(<<"claimB">>))>>)
PendingBody == Json(<<M(<<"error">>, VStr(<<"pending_user_action">>))>>)
InvalidTokenBody == Json(<<M(<<"error">>, VStr(<<"invalid_x_privet_", "token">>))>>)
BusyBody == Json(<<M(<<"error">>, VStr(<<"device_busy">>))>>)
ClaimTokenResponses ==
  { Ok(TokenBody), Ok(TokenOnlyBody), Ok(PendingBody), Ok(InvalidTokenBody),
    Ok(BusyBody), Failed(EmptyBody) }

\* the automated claim URL of the service
ClaimResponses ==
  { Ok(Json(<<M(<<"success">>, VTrue)>>)), Ok(Json(<<M(<<"success">>, VFalse)>>)),
    Ok(Json(<<M(<<"message">>, VStr(<<"claimed">>))>>)), Failed(HtmlBody) }

\* /privet/register?action=complete
CompleteResponses ==
  { Ok(Json(<<M(<<"user">>, VStr(<<"tester">>)), M(<<"device_id">>, VStr(<<"dev1">>))>>)),
    Ok(Json(<<M(<<"cloud_", "device_id">>, VStr(<<"dev2">>))>>)),
    Ok(Json(<<M(<<"device_id">>, VStr(<<>>))>>)),
    Ok(Json(<<M(<<"error">>, VStr(<<"invalid_action">>))>>)),
    Failed(HtmlBody) }

\* {service}/delete?printerid=
DeleteResponses ==
  { Ok(Json(<<M(<<"success">>, VTrue)>>)),
    Ok(Json(<<M(<<"success">>, VFalse), M(<<"message">>, VStr(<<"unknown printer">>))>>)),
    Failed(HtmlBody) }

\* ------------------------------ CDD ------------------------------------
\* self.info is None, or the text of the page: empty, not JSON, or a JSON
\* object that may have a printers list.  A printer record is a sequence of
\* members [k, v, hasPrinter, printer] in the order `for k in` visits them;
\* the member "capabilities" carries the members of capabilities.printer
\* when it has that key.
Doc(kind, hasPrinters, printers) ==
  [kind |-> kind, hasPrinters |-> hasPrinters, printers |-> printers]
NoInfo == Doc("none", FALSE, <<>>)
EmptyDoc == Doc("empty", FALSE, <<>>)
NotJsonDoc == Doc("text", FALSE, <<>>)
Field(k, v) == [k |-> k, v |-> v, hasPrinter |-> FALSE, printer |-> <<>>]
Capabilities(printer) ==
  [k |-> "capabilities", v |-> None, hasPrinter |-> TRUE, printer |-> printer]
CapabilitiesNoPrinter ==
  [k |-> "capabilities", v |-> None, hasPrinter |-> FALSE, printer |-> <<>>]

\* self.cdd: the top-level fields, and the mapping under 'caps' if there.
Cdd(top, hasCaps, caps) == [top |-> top, hasCaps |-> hasCaps, caps |-> caps]
Raise(name) == [t |-> "raise", s |-> <<name>>]

HasMember(record, k) == \E i \in 1..Len(record) : record[i].k = k
Member(record, k) == record[CHOOSE i \in 1..Len(record) : record[i].k = k]

FirstPrinterLast(doc) == doc.printers[Len(doc.printers)]
\* cdd['printers'][0]
FirstPrinter(doc) == doc.printers[1]

\* The loop `for k in cdd['printers'][0]` of Device.ParseCDD.
RECURSIVE StoreRecord(_, _)
StoreRecord(cdd, record) ==
  IF record = <<>> THEN cdd
  ELSE LET m == Head(record)
       IN StoreRecord(IF m.k = "capabilities"
                      THEN [cdd EXCEPT !.hasCaps = TRUE, !.caps = <<>>]
                      ELSE [cdd EXCEPT !.top = (m.k :> m.v) @@ cdd.top],
                      Tail(record))

\* The loop over capabilities.printer of Device.ParseCDD.
RECURSIVE StoreCaps(_, _)
StoreCaps(cdd, printer) ==
  IF printer = <<>> THEN cdd
  ELSE StoreCaps([cdd EXCEPT !.caps = (Head(printer).k :> Head(printer).v) @@ cdd.caps],
                 Tail(printer))

\* Device.ParseCDD on self.info = info with self.cdd = cdd.
ParseCDD(cdd, info) ==
  IF info.kind \in {"none", "empty"} THEN [cdd |-> cdd, ret |-> VFalse]
  ELSE IF info.kind = "text" THEN [cdd |-> cdd, ret |-> Raise("ValueError")]
  ELSE IF ~info.hasPrinters THEN [cdd |-> cdd, ret |-> VFalse]
  ELSE IF info.printers = <<>> THEN [cdd |-> cdd, ret |-> Raise("IndexError")]
  ELSE LET record == FirstPrinter(info)
           stored == StoreRecord(cdd, record)
       IN IF ~HasMember(record, "capabilities") \/ ~Member(record, "capabilities").hasPrinter
          THEN [cdd |-> stored, ret |-> Raise("KeyError")]
          ELSE [cdd |-> StoreCaps(stored, Member(record, "capabilities").printer),
                ret |-> VTrue]

\* Device.GetDeviceCDD: console tells the first step of the console that
\* fails ("ok" when none does), page is the text of the page it shows.
GetDeviceCDD(cdd, info, console, page) ==
  IF console # "ok"
  THEN [cdd |-> cdd, info |-> info, ret |-> VFalse, parsed |-> None]
  ELSE LET p == ParseCDD(cdd, page)
       IN [cdd |-> p.cdd, info |-> page, parsed |-> p.ret,
           ret |-> IF p.ret.t = "raise" THEN p.ret ELSE VTrue]

\* The steps of the console in Device.GetDeviceCDD.
Console == {"no_lookup", "no_keys", "no_click", "no_page", "ok"}

\* The pages the console may show.
GoodDocs ==
  { Doc("json", TRUE,
        << <<Field("name", VStr(<<"X">>)),
             Capabilities(<<M("color", VStr(<<"rgb">>))>>)>> >>),
    Doc("json", TRUE,
        << <<Capabilities(<<M("dpi", VNum(<<"600">>)), M("color", VStr(<<"mono">>))>>),
             Field("id", VStr(<<"Y">>))>>,
           <<Field("name", VStr(<<"Z">>)),
             Capabilities(<<M("color", VStr(<<"cmyk">>))>>)>> >>) }
NoCapabilitiesDoc == Doc("json", TRUE, << <<Field("name", VStr(<<"W">>))>> >>)
NoPrintersDoc == Doc("json", FALSE, <<>>)
Docs ==
  GoodDocs \cup
  { EmptyDoc, NotJsonDoc, NoPrintersDoc, NoCapabilitiesDoc,
    Doc("json", TRUE, <<>>),
    Doc("json", TRUE, << <<Field("name", VStr(<<"V">>)), CapabilitiesNoPrinter>> >>) }

\* ------------------------------ details --------------------------------
\* RETRY_COUNT in Device.GetDeviceDetails
RETRY_COUNT == 3
PassesOffByOne == RETRY_COUNT + 2
\* The passes of `for i in range(-1, RETRY_COUNT)`.
Passes == RETRY_COUNT + 1

Getters == {"error_state", "warning_state", "status", "messages", "details"}
VDict(s) == [t |-> "dict", s |-> s]
\* What the getters of the management console may give; None is nothing.
Results ==
  [error_state : {VTrue, VFalse, None},
   warning_state : {VTrue, VFalse, None},
   status : {VStr(<<"ONLINE">>), None},
   messages : {VDict(<<"msg">>), None},
   details : {VDict(<<"detail">>), None}]

\* The five fields as Device.__init__ leaves them.
FreshDetails ==
  [error_state |-> VFalse, warning_state |-> VFalse, status |-> None,
   messages |-> VDict(<<>>), details |-> VDict(<<>>)]
\* The five fields as GetDeviceDetails sets them before its loop.
ClearedDetails == [g \in Getters |-> None]

\* The getters one pass of the loop of Device.GetDeviceDetails invokes.
Invoked(fields) == {g \in Getters : ~Truthy(fields[g])}
\* The fields after one pass in which the getters give results.
Pass(fields, results) ==
  [g \in Getters |-> IF g \in Invoked(fields) THEN results[g] ELSE fields[g]]

\* ------------------------------ state ----------------------------------
VARIABLES
  headers,              \* self.headers
  privet_info,          \* self.privet_info
  claim_token,          \* self.claim_token
  automated_claim_url,  \* self.automated_claim_url
  claim_url,            \* self.claim_url
  id,                   \* self.id
  pc,                   \* "idle", or the method that is running
  counter,              \* counter of GetPrivetClaimToken
  lastOp,               \* the method called last
  ret,                  \* what it returned or raised (None while it runs)
  nReq,                 \* the requests that call has issued so far
  lastReq,              \* the last request issued
  lastResp,             \* the response to it
  nPending,             \* the pending_user_action responses of that call
  lastInfo,             \* the body of the last info response
  stage,                \* how far the registration has succeeded
  adopted,              \* the id adopted from the service and not deleted since
  info,                 \* self.info
  cdd,                  \* self.cdd
  cddOp,                \* the CDD method called last
  cddRet,               \* what it returned or raised
  parsed,               \* what the ParseCDD of that call returned (None: not run)
  error_state,          \* self.error_state
  warning_state,        \* self.warning_state
  status,               \* self.status
  messages,             \* self.messages
  details,              \* self.details
  passes,               \* passes of the loop of GetDeviceDetails done (0: no call yet)
  running,              \* whether GetDeviceDetails is in its loop
  calls,                \* how often that call has invoked each getter
  fetched               \* the getters that have given a value to that call

dev == <<headers, privet_info, claim_token, automated_claim_url, claim_url, id>>
obs == <<lastOp, ret, nReq, lastReq, lastResp, nPending, lastInfo>>
reg == <<dev, pc, counter, obs, stage, adopted>>
cddv == <<info, cdd, cddOp, cddRet, parsed>>
det == <<error_state, warning_state, status, messages, details, passes, running,
         calls, fetched>>
vars == <<reg, cddv, det>>

\* The five fields of the status snapshot.
Details ==
  [error_state |-> error_state, warning_state |-> warning_state, status |-> status,
   messages |-> messages, details |-> details]
SetDetails(fields) ==
  /\ error_state' = fields.error_state
  /\ warning_state' = fields.warning_state
  /\ status' = fields.status
  /\ messages' = fields.messages
  /\ details' = fields.details

\* The device object.
Self ==
  [headers |-> headers, privet_info |-> privet_info, claim_token |-> claim_token,
   automated_claim_url |-> automated_claim_url, claim_url |-> claim_url, id |-> id]

\* Device.__init__, before its call of GetPrivetInfo.
Fresh ==
  [headers |-> None, privet_info |-> <<>>, claim_token |-> Unset,
   automated_claim_url |-> Unset, claim_url |-> Unset, id |-> Unset]

SetSelf(self) ==
  /\ headers' = self.headers
  /\ privet_info' = self.privet_info
  /\ claim_token' = self.claim_token
  /\ automated_claim_url' = self.automated_claim_url
  /\ claim_url' = self.claim_url
  /\ id' = self.id

NoReq == Req("none", None, None)
NoResp == Response(<<>>, EmptyBody)

\* A body whose error field is pending_user_action.
IsPending(body) ==
  HasKey(body, <<"error">>) /\ GetValue(body, <<"error">>) = VStr(<<"pending_user_action">>)
\* A body whose error field is anything else.
IsTerminalError(body) == HasKey(body, <<"error">>) /\ ~IsPending(body)
HasTokenField(body) == HasKey(body, <<"token">>)
\* The members of a body whose key has device_id in it.
IdMembers(body) ==
  IF body.json
  THEN {body.members[i] : i \in {j \in 1..Len(body.members) :
                                  \E n \in 1..Len(body.members[j].k) :
                                     body.members[j].k[n] = "device_id"}}
  ELSE {}
\* The id held for the service after a call: the one a complete response
\* brought, none once a delete has succeeded.
AdoptedAfter(held, op, r, response) ==
  IF op = "FinishPrivetRegister" /\ IdMembers(response.data) # {}
  THEN (CHOOSE m \in IdMembers(response.data) : TRUE).v
  ELSE IF op = "UnRegister" /\ r = VTrue THEN None
  ELSE held

\* The order Start, ObtainClaimToken, SendClaimToken, FinishRegistration,
\* Unregister of the registration, Cancel allowed while it is under way.
Expected(st) ==
  CASE st = "Started" -> {"GetPrivetClaimToken", "CancelRegistration"}
    [] st = "ClaimTokenObtained" -> {"SendClaimToken", "CancelRegistration"}
    [] st = "ClaimSent" -> {"FinishPrivetRegister", "CancelRegistration"}
    [] st = "Completed" -> {"UnRegister"}
    [] OTHER -> {"StartPrivetRegister"}
StageAfter(st, op, r) ==
  IF op \notin Expected(st) THEN st
  ELSE IF op = "CancelRegistration" THEN "Unclaimed"
  ELSE IF r # VTrue THEN st
  ELSE CASE st = "Started" -> "ClaimTokenObtained"
         [] st = "ClaimTokenObtained" -> "ClaimSent"
         [] st = "ClaimSent" -> "Completed"
         [] st = "Completed" -> "Unregistered"
         [] OTHER -> "Started"

\* A method that runs to its end in one step: o is its outcome on response.
Returns(op, o, response) ==
  /\ pc = "idle"
  /\ SetSelf(o.self)
  /\ UNCHANGED <<pc, counter, nPending>>
  /\ lastOp' = op
  /\ ret' = o.ret
  /\ nReq' = Len(o.reqs)
  /\ lastReq' = IF o.reqs = <<>> THEN NoReq ELSE o.reqs[Len(o.reqs)]
  /\ lastResp' = IF o.reqs = <<>> THEN NoResp ELSE response
  /\ stage' = StageAfter(stage, op, o.ret)
  /\ adopted' = AdoptedAfter(adopted, op, o.ret, response)
  /\ UNCHANGED <<cddv, det>>

Init ==
  \E response \in InfoResponses :
    LET o == GetPrivetInfo(Fresh, response)
    IN /\ headers = o.self.headers
       /\ privet_info = o.self.privet_info
       /\ claim_token = o.self.claim_token
       /\ automated_claim_url = o.self.automated_claim_url
       /\ claim_url = o.self.claim_url
       /\ id = o.self.id
       /\ pc = "idle"
       /\ counter = 0
       /\ lastOp = "__init__"
       /\ ret = None
       /\ nReq = 1
       /\ lastReq = o.reqs[1]
       /\ lastResp = response
       /\ nPending = 0
       /\ lastInfo = response.data
       /\ stage = "Unclaimed"
       /\ adopted = Unset
       /\ info = NoInfo
       /\ cdd = Cdd(<<>>, FALSE, <<>>)
       /\ cddOp = "__init__"
       /\ cddRet = None
       /\ parsed = None
       /\ error_state = FreshDetails.error_state
       /\ warning_state = FreshDetails.warning_state
       /\ status = FreshDetails.status
       /\ messages = FreshDetails.messages
       /\ details = FreshDetails.details
       /\ passes = 0
       /\ running = FALSE
       /\ calls = [g \in Getters |-> 0]
       /\ fetched = {}

DoGetPrivetInfo ==
  \E response \in InfoResponses :
    /\ Returns("GetPrivetInfo", GetPrivetInfo(Self, response), response)
    /\ lastInfo' = response.data

DoCancelRegistration ==
  \E response \in PlainResponses :
    /\ Returns("CancelRegistration", CancelRegistration(Self, response), response)
    /\ UNCHANGED lastInfo

DoStartPrivetRegister ==
  \E response \in PlainResponses :
    /\ Returns("StartPrivetRegister", StartPrivetRegister(Self, response), response)
    /\ UNCHANGED lastInfo

\* One pass of the loop of GetPrivetClaimToken from counter c.
Poll(c, response) ==
  LET o == ClaimTokenAttempt(Self, c, response)
  IN /\ SetSelf(o.self)
     /\ counter' = o.counter
     /\ pc' = IF o.done THEN "idle" ELSE "GetPrivetClaimToken"
     /\ ret' = IF o.done THEN o.ret ELSE None
     /\ lastReq' = o.reqs[1]
     /\ lastResp' = response
     /\ UNCHANGED <<lastInfo, adopted, cddv, det>>

\* The call of GetPrivetClaimToken, up to the end of its first pass.
DoGetPrivetClaimToken ==
  \E response \in ClaimTokenResponses :
    /\ pc = "idle"
    /\ Poll(0, response)
    /\ lastOp' = "GetPrivetClaimToken"
    /\ nReq' = 1
    /\ nPending' = IF IsPending(response.data) THEN 1 ELSE 0
    /\ stage' = IF pc' = "idle" THEN StageAfter(stage, "GetPrivetClaimToken", ret')
                ELSE stage

\* A further pass of the loop of GetPrivetClaimToken.
LoopGetPrivetClaimToken ==
  \E response \in ClaimTokenResponses :
    /\ pc = "GetPrivetClaimToken"
    /\ nReq < MaxPolls
    /\ Poll(counter, response)
    /\ nReq' = nReq + 1
    /\ nPending' = nPending + (IF IsPending(response.data) THEN 1 ELSE 0)
    /\ UNCHANGED lastOp
    /\ stage' = IF pc' = "idle"
                THEN StageAfter(stage, "GetPrivetClaimToken", ret')
                ELSE stage

DoSendClaimToken ==
  \E response \in ClaimResponses :
    /\ Returns("SendClaimToken", SendClaimToken(Self, response), response)
    /\ UNCHANGED lastInfo

DoFinishPrivetRegister ==
  \E response \in CompleteResponses :
    /\ Returns("FinishPrivetRegister", FinishPrivetRegister(Self, response), response)
    /\ UNCHANGED lastInfo

DoUnRegister ==
  \E response \in DeleteResponses :
    /\ Returns("UnRegister", UnRegister(Self, response), response)
    /\ UNCHANGED lastInfo

Next ==
  \/ DoGetPrivetInfo
  \/ DoCancelRegistration
  \/ DoStartPrivetRegister
  \/ DoGetPrivetClaimToken
  \/ LoopGetPrivetClaimToken
  \/ DoSendClaimToken
  \/ DoFinishPrivetRegister
  \/ DoUnRegister

Spec == Init /\ [][Next]_vars

\* ---- capability retrieval ----
DoGetDeviceCDD ==
  \E console \in Console, page \in Docs :
    LET o == GetDeviceCDD(cdd, info, console, page)
    IN /\ cdd' = o.cdd
       /\ info' = o.info
       /\ cddOp' = "GetDeviceCDD"
       /\ cddRet' = o.ret
       /\ parsed' = o.parsed
       /\ UNCHANGED <<reg, det>>

DoParseCDD ==
  LET o == ParseCDD(cdd, info)
  IN /\ cdd' = o.cdd
     /\ cddOp' = "ParseCDD"
     /\ cddRet' = o.ret
     /\ parsed' = o.ret
     /\ UNCHANGED <<info, reg, det>>

NextCDD == DoGetDeviceCDD \/ DoParseCDD

SpecCDD == Init /\ [][NextCDD]_vars

\* ---- status snapshot ----
\* One pass of the loop of GetDeviceDetails over fields.
DetailsPass(fields, n, count, got) ==
  \E results \in {r \in Results : \A g \in Getters \ Invoked(fields) : r[g] = None} :
    /\ SetDetails(Pass(fields, results))
    /\ passes' = n + 1
    /\ running' = (n + 1 < Passes)
    /\ calls' = [g \in Getters |-> count[g] + (IF g \in Invoked(fields) THEN 1 ELSE 0)]
    /\ fetched' = got \cup {g \in Invoked(fields) : results[g] # None}
    /\ UNCHANGED <<reg, cddv>>

\* The call of GetDeviceDetails, up to the end of its first pass.
DoGetDeviceDetails ==
  /\ ~running
  /\ DetailsPass(ClearedDetails, 0, [g \in Getters |-> 0], {})

\* A further pass of the loop of GetDeviceDetails.
LoopGetDeviceDetails ==
  /\ running
  /\ DetailsPass(Details, passes, calls, fetched)

NextDetails == DoGetDeviceDetails \/ LoopGetDeviceDetails

SpecDetails == Init /\ [][NextDetails]_vars

\* ------------------------------ claims ---------------------------------
Polling == lastOp = "GetPrivetClaimToken"
Returned == pc = "idle"
\* Every response of the running GetPrivetClaimToken call was pending.
AllPending == nPending = nReq
\* All responses before the last one were pending.
OnlyPendingBefore == nPending = nReq - (IF IsPending(lastResp.data) THEN 0 ELSE 1)
ClaimAbsent(v) == v \in {Unset, None}

\* C1: GetPrivetClaimToken issues at most 5 getClaimToken requests, whatever
\* the responses are (token, error, or neither).
C1_AtMostFiveRequests == Polling => nReq <= 5

\* C2: when every response is a pending_user_action error, the call has not
\* returned before the 5th request and returns False with the 5th.
C2_PendingFailsAfterFive ==
  (Polling /\ AllPending) =>
     IF nReq < 5 THEN ~Returned /\ ret = None
     ELSE nReq = 5 /\ Returned /\ ret = VFalse
C2_Witness == Polling /\ AllPending /\ nReq = 5 /\ Returned /\ ret = VFalse

\* C3: the first response with a token field, after any number of pending
\* responses, ends the call with True and its three values are stored.
C3_TokenReturnsTrue ==
  (Polling /\ HasTokenField(lastResp.data) /\ OnlyPendingBefore) =>
     /\ Returned
     /\ ret = VTrue
     /\ nReq <= 5
     /\ claim_token = GetValue(lastResp.data, <<"token">>)
     /\ automated_claim_url = GetValue(lastResp.data, <<"automated_", "claim_url">>)
     /\ claim_url = GetValue(lastResp.data, <<"claim_url">>)
C3_Witness ==
  /\ Polling /\ nPending = 4 /\ nReq = 5 /\ lastResp.data = TokenBody
  /\ ret = VTrue /\ claim_url = VStr(<<"humanA">>)

\* C4: an error other than pending_user_action ends the call with False and
\* stores no claim field; a pending response does not end it before the cap.
C4_OnlyPendingRetried ==
  [][/\ (Polling' /\ IsTerminalError(lastResp'.data)) =>
          /\ Returned'
          /\ ret' = VFalse
          /\ UNCHANGED <<claim_token, automated_claim_url, claim_url>>
     /\ (Polling' /\ IsPending(lastResp'.data) /\ nPending' < 5) => ~Returned']_vars

\* C5: SendClaimToken without a claim token and automated-claim URL returns
\* False and issues no request.
C5_SendWithoutClaimFails ==
  (lastOp = "SendClaimToken" /\ ~(Truthy(claim_token) /\ Truthy(automated_claim_url)))
     => (ret = VFalse /\ nReq = 0)

\* C6: UnRegister on a device that holds no id returns False and issues no
\* delete request.
C6_UnRegisterWithoutIdFails ==
  [][(pc = "idle" /\ lastOp' = "UnRegister" /\ ~Truthy(id))
        => (ret' = VFalse /\ nReq' = 0)]_vars

PrivetCalls ==
  {"StartPrivetRegister", "GetPrivetClaimToken", "FinishPrivetRegister",
   "CancelRegistration"}

Ordered ==
  {"StartPrivetRegister", "GetPrivetClaimToken", "SendClaimToken",
   "FinishPrivetRegister", "UnRegister"}

\* C7: a call that is not the next one in the order Start, ObtainClaimToken,
\* SendClaimToken, FinishRegistration, Unregister is rejected with a state
\* error and issues no request.
C7_OutOfOrderRejected ==
  [][(pc = "idle" /\ lastOp' \in Ordered /\ lastOp' \notin Expected(stage))
        => (nReq' = 0 /\ ret'.t = "raise")]_vars

\* C7 as amended: Start, GetPrivetClaimToken, FinishPrivetRegister and
\* CancelRegistration issue their request in whatever order they are called
\* and raise nothing; SendClaimToken issues a request only with a non-empty
\* claim token and automated-claim URL, UnRegister only with a non-empty id.
C7_OnlyGuardedCallsWait ==
  /\ lastOp \in PrivetCalls => (nReq >= 1 /\ ret.t # "raise")
  /\ (lastOp = "SendClaimToken" /\ nReq > 0) =>
        /\ Truthy(claim_token)
        /\ Truthy(automated_claim_url)
        /\ lastReq = Req("claim", automated_claim_url, None)
  /\ (lastOp = "UnRegister" /\ nReq > 0) =>
        (lastReq.ep = "delete" /\ Truthy(lastReq.arg))
C7_Witness ==
  /\ lastOp = "FinishPrivetRegister" /\ stage = "Unclaimed"
  /\ nReq = 1 /\ lastReq.ep = "complete" /\ ret = VTrue

\* C8: after CancelRegistration, and after a successful UnRegister, the
\* claim token, both claim URLs and the device id are all unset.
C8_ClearedOnCancelAndUnregister ==
  (lastOp = "CancelRegistration" \/ (lastOp = "UnRegister" /\ ret = VTrue)) =>
     /\ ClaimAbsent(claim_token)
     /\ ClaimAbsent(automated_claim_url)
     /\ ClaimAbsent(claim_url)
     /\ ClaimAbsent(id)

\* C8 as amended: CancelRegistration issues its request and changes no field;
\* a successful UnRegister clears the device id only; the claim token and the
\* claim URLs stay, so a SendClaimToken that follows still issues its request.
C8_OnlyIdClearedOnUnregister ==
  [][/\ (pc = "idle" /\ lastOp' = "CancelRegistration") =>
          (nReq' = 1 /\ UNCHANGED <<claim_token, automated_claim_url, claim_url, id>>)
     /\ (pc = "idle" /\ lastOp' = "UnRegister") =>
          /\ UNCHANGED <<claim_token, automated_claim_url, claim_url>>
          /\ ret' = VTrue => id' = None
     /\ (lastOp \in {"CancelRegistration", "UnRegister"} /\ lastOp' = "SendClaimToken"
           /\ Truthy(claim_token) /\ Truthy(automated_claim_url)) => nReq' = 1]_vars
C8_Witness ==
  /\ lastOp = "CancelRegistration" /\ claim_token = VStr(<<"claimA">>)
  /\ automated_claim_url = VStr(<<"urlA">>) /\ id = VStr(<<"dev1">>)

\* C9: UnRegister with an id issues one delete request keyed by it; a response
\* that validates clears the id and gives True, any other leaves the id and
\* gives False.
C9_UnRegisterWithId ==
  [][(pc = "idle" /\ lastOp' = "UnRegister" /\ Truthy(id)) =>
        /\ nReq' = 1
        /\ lastReq' = Req("delete", id, None)
        /\ IF Validate(lastResp'.data)
           THEN id' = None /\ ret' = VTrue
           ELSE id' = id /\ ret' = VFalse]_vars
C9_Witness ==
  /\ lastOp = "UnRegister" /\ nReq = 1 /\ lastReq.arg = VStr(<<"dev2">>)
  /\ id = None /\ ret = VTrue

TokenKey == <<"x-privet-", "token">>
Authenticated == {"start", "getClaimToken", "complete", "cancel"}

\* C10: after an info response with an x-privet-token key, the token sent on
\* the authenticated calls equals the key's value exactly.
C10_TokenEqualsValue ==
  (HasKey(lastInfo, TokenKey) /\ lastReq.ep \in Authenticated) =>
     lastReq.hdr = GetValue(lastInfo, TokenKey)

\* C10 as amended: the token sent is the text of the key's value: the value
\* itself when it is a string, its decimal text when it is a number.
C10_TokenIsTextOfValue ==
  (HasKey(lastInfo, TokenKey) /\ lastReq.ep \in Authenticated) =>
     /\ lastReq.hdr.t = "str"
     /\ lastReq.hdr.s = GetValue(lastInfo, TokenKey).s
     /\ GetValue(lastInfo, TokenKey).t = "str" => lastReq.hdr = GetValue(lastInfo, TokenKey)
C10_Witness ==
  /\ lastReq.ep = "complete"
  /\ GetValue(lastInfo, TokenKey) = VNum(<<"5">>)
  /\ lastReq.hdr = VStr(<<"5">>)

\* C15: SendClaimToken with a claim token and automated-claim URL issues one
\* request to that URL and returns True when the response is JSON with a true
\* success indicator, False in every other case.
C15_SendClaimResult ==
  (lastOp = "SendClaimToken" /\ Truthy(claim_token) /\ Truthy(automated_claim_url)) =>
     /\ nReq = 1
     /\ lastReq = Req("claim", automated_claim_url, None)
     /\ ret = PyBool(/\ lastResp.data.json
                     /\ HasKey(lastResp.data, <<"success">>)
                     /\ GetValue(lastResp.data, <<"success">>) = VTrue)

\* C17: after a GetPrivetInfo whose response is not JSON, or is JSON without
\* x-privet-token, no session token is held.
C17_NoTokenAfterBadInfo ==
  (lastOp \in {"__init__", "GetPrivetInfo"} /\ ~HasKey(lastInfo, TokenKey)) =>
     headers = None

\* C17 as amended: such a GetPrivetInfo leaves the session token as it was
\* (none after construction, the earlier token otherwise) and raises nothing.
C17_BadInfoKeepsToken ==
  /\ (lastOp = "__init__" /\ ~HasKey(lastInfo, TokenKey)) => headers = None
  /\ [][(lastOp' = "GetPrivetInfo" /\ ~HasKey(lastInfo', TokenKey)) =>
          /\ headers' = headers
          /\ ret' = None
          /\ pc' = "idle"
          /\ privet_info' = lastInfo'.members]_vars
C17_Witness ==
  /\ lastOp = "GetPrivetInfo" /\ lastInfo = HtmlBody
  /\ headers = VStr(<<"tokA">>) /\ privet_info = <<>>

\* C18: FinishPrivetRegister issues one request to the complete endpoint,
\* takes as id the value of a key that has device_id in it, leaves the id
\* alone when there is none, and returns the outcome of the request.
C18_FinishAdoptsId ==
  [][(pc = "idle" /\ lastOp' = "FinishPrivetRegister") =>
        /\ nReq' = 1
        /\ lastReq' = Req("complete", None, headers)
        /\ ret' = PyBool(lastResp'.code = <<"200">>)
        /\ IF IdMembers(lastResp'.data) = {}
           THEN id' = id
           ELSE \E m \in IdMembers(lastResp'.data) : id' = m.v]_vars
C18_Witness ==
  /\ lastOp = "FinishPrivetRegister" /\ ret = VTrue /\ id = Unset
  /\ lastResp.data.json

\* C19: a delete request is sent only for an id adopted by an earlier
\* FinishPrivetRegister and not deleted since; after a successful UnRegister
\* the next ones return False without a request until an id is adopted again.
C19_DeleteOnlyWhileAdopted ==
  [][(pc = "idle" /\ lastOp' = "UnRegister") =>
        /\ nReq' > 0 => (Truthy(adopted) /\ lastReq' = Req("delete", adopted, None))
        /\ adopted = None => (ret' = VFalse /\ nReq' = 0)]_vars
C19_Witness ==
  /\ lastOp = "UnRegister" /\ adopted = None /\ ret = VFalse /\ nReq = 0

\* ---- claims on the capability document (SpecCDD) ----
\* ParseCDD ran in the last call; self.info is the document it read.
ParseRan == parsed # None
\* A document whose first printer record has capabilities.printer.
GoodDoc(d) ==
  /\ d.kind = "json" /\ d.hasPrinters /\ d.printers # <<>>
  /\ \E i \in 1..Len(d.printers[1]) :
        d.printers[1][i].k = "capabilities" /\ d.printers[1][i].hasPrinter
\* The three documents on which the parse is to fail: empty, no printers key,
\* first printer record without a capabilities key.
FailureDoc(d) ==
  \/ d.kind \in {"none", "empty"}
  \/ d.kind = "json" /\ ~d.hasPrinters
  \/ /\ d.kind = "json" /\ d.hasPrinters /\ d.printers # <<>>
     /\ \A i \in 1..Len(d.printers[1]) : d.printers[1][i].k # "capabilities"
\* The mapping a sequence of members stands for.
AsMap(ms) ==
  [k \in {ms[i].k : i \in 1..Len(ms)} |->
     ms[CHOOSE i \in 1..Len(ms) :
          ms[i].k = k /\ \A j \in (i + 1)..Len(ms) : ms[j].k # k].v]
\* capabilities.printer of the first printer record of a good document.
FirstCaps(d) ==
  AsMap(d.printers[1][CHOOSE i \in 1..Len(d.printers[1]) :
                        d.printers[1][i].k = "capabilities"].printer)
\* The other members of the first printer record.
FirstFields(d) ==
  {d.printers[1][i] : i \in {j \in 1..Len(d.printers[1]) :
                               d.printers[1][j].k # "capabilities"}}

C12_ParseFailsCleanly ==
  [][(ParseRan' /\ FailureDoc(info')) => (parsed' = VFalse /\ cdd' = cdd)]_vars

\* C16: GetDeviceCDD returns True only when the document was parsed; on an
\* empty document, one without printers or one without capabilities it
\* returns False.
C16_TrueOnlyWhenParsed ==
  /\ (cddOp = "GetDeviceCDD" /\ cddRet = VTrue) => parsed = VTrue
  /\ (cddOp = "GetDeviceCDD" /\ ParseRan /\ FailureDoc(info)) => cddRet = VFalse

\* C20: after a successful ParseCDD that follows a successful one cdd holds the document just parsed and
\* nothing else: caps is its capabilities.printer and the top-level fields
\* are the other keys of its first printer record.
C20_OnlyLastDocument ==
  [][(parsed = VTrue /\ parsed' = VTrue) =>
        /\ cdd'.hasCaps
        /\ cdd'.caps = FirstCaps(info')
        /\ DOMAIN cdd'.top = {m.k : m \in FirstFields(info')}
        /\ \A m \in FirstFields(info') : cdd'.top[m.k] = m.v]_vars

\* ---- claims on the status snapshot (SpecDetails) ----
\* C13: GetDeviceDetails ends after 4 passes, invokes each getter at most 4
\* times, and a field whose getter gave nothing in all of them is empty at
\* the end.
C13_BoundedRetry ==
  /\ passes <= 4
  /\ passes >= 1 => (running <=> passes < 4)
  /\ \A g \in Getters : calls[g] <= 4
  /\ (passes = 4) => \A g \in Getters \ fetched : calls[g] = 4 /\ Details[g] = None
C13_Witness ==
  /\ passes = 4 /\ ~running /\ fetched = {"status", "error_state"}
  /\ calls["details"] = 4 /\ details = None /\ status = VStr(<<"ONLINE">>)

\* C14: within one call a field that has been fetched is not fetched again
\* nor overwritten, and once all five are fetched no getter is invoked.
C14_FetchedIsSkipped ==
  [][running =>
       /\ \A g \in fetched : calls'[g] = calls[g] /\ Details'[g] = Details[g]
       /\ fetched = Getters => calls' = calls]_vars

====
